---- MODULE Spec2Model ----
(***************************************************************************)
(* The environment wrappers of lux_ai/lux_gym/wrappers.py: PadEnv,         *)
(* LoggingEnv, VecEnv and DictEnv, each around an abstract inner           *)
(* environment whose results are drawn from small sets.  PytorchEnv holds  *)
(* no state besides its device and only converts arrays to tensors and     *)
(* back; it is not modelled.                                               *)
(*                                                                         *)
(* A numpy array is a record [rank, shape, cells]: rank is its number of   *)
(* axes, shape its trailing two (spatial) dimensions <<rows, cols>>, cells *)
(* its content over those two axes (indices from 0, as in the source);     *)
(* every leading axis has length 1.  A Python dict with string keys is a   *)
(* TLA+ function whose DOMAIN is the key set.                              *)
(***************************************************************************)
EXTENDS Integers, Sequences, FiniteSets, TLC

VARIABLES
    wrapper,               \* which wrapper object the driver holds
    board_dims,            \* PadEnv: self.unwrapped.board_dims
    input_mask,            \* PadEnv: self.input_mask
    peak_city_tile_count,  \* LoggingEnv: self.peak_city_tile_count
    episode_peak,          \* history: the largest of 1 and the city-tile counts read since the last LoggingEnv.reset
    last_outs,             \* VecEnv: self.last_outs
    x0,                    \* pad/crop driver: the array the operations started from
    ops,                   \* pad/crop driver: the operations applied to x0 so far
    last                   \* the last call made on the wrapper and what it returned

vars == <<wrapper, board_dims, input_mask, peak_city_tile_count, episode_peak,
          last_outs, x0, ops, last>>

(* ------------------------------ bounds -------------------------------- *)

MaxRows == 2
MaxCols == 2
MaxRank == 4

\* arrays have between three axes and MaxRank axes
Ranks == 3..MaxRank
Vals == {0, 1}

Min(a, b) == IF a < b THEN a ELSE b
Max(a, b) == IF a > b THEN a ELSE b

EmptyDict == <<>>

(* ------------------------------ arrays -------------------------------- *)

Cells(shape) == (0..(shape[1] - 1)) \X (0..(shape[2] - 1))

Arr(rank, shape, cells) == [rank |-> rank, shape |-> shape, cells |-> cells]

\* np.zeros / an array filled with one value
Full(rank, shape, v) == Arr(rank, shape, [p \in Cells(shape) |-> v])

\* every array of the given rank and trailing shape
AllArrays(rank, shape) == {Arr(rank, shape, c) : c \in [Cells(shape) -> Vals]}

\* arr[..., :rows, :cols]: basic slicing clips to the array's own extent
Slice(arr, rows, cols) ==
    LET shape == <<Min(arr.shape[1], rows), Min(arr.shape[2], cols)>>
    IN  Arr(arr.rank, shape, [p \in Cells(shape) |-> arr.cells[p]])

\* np.pad(arr, pad_width=pw, constant_values=0.) is defined exactly when pw
\* gives one (before, after) pair per axis of arr
np_pad_ok(arr, pw) == Len(pw) = arr.rank

np_pad_ones(arr, pw) ==
    LET rb == pw[Len(pw) - 1]
        cb == pw[Len(pw)]
        shape == <<rb[1] + arr.shape[1] + rb[2], cb[1] + arr.shape[2] + cb[2]>>
    IN  Arr(arr.rank, shape,
            [p \in Cells(shape) |->
                IF /\ p[1] - rb[1] \in 0..(arr.shape[1] - 1)
                   /\ p[2] - cb[1] \in 0..(arr.shape[2] - 1)
                THEN arr.cells[<<p[1] - rb[1], p[2] - cb[1]>>]
                ELSE 1])

np_pad(arr, pw) ==
    LET rb == pw[Len(pw) - 1]
        cb == pw[Len(pw)]
        shape == <<rb[1] + arr.shape[1] + rb[2], cb[1] + arr.shape[2] + cb[2]>>
    IN  Arr(arr.rank, shape,
            [p \in Cells(shape) |->
                IF /\ p[1] - rb[1] \in 0..(arr.shape[1] - 1)
                   /\ p[2] - cb[1] \in 0..(arr.shape[2] - 1)
                THEN arr.cells[<<p[1] - rb[1], p[2] - cb[1]>>]
                ELSE 0])

(* ------------------------------ PadEnv -------------------------------- *)

max_board_size == <<MaxRows, MaxCols>>

BoardDims == (1..MaxRows) \X (1..MaxCols)

pad_width_before(orig_board_dims) ==
    << <<0, 0>>,
       <<0, 0>>,
       <<max_board_size[1] - orig_board_dims[1], 0>>,
       <<max_board_size[2] - orig_board_dims[2], 0>> >>

pad_width(orig_board_dims) ==
    << <<0, 0>>,
       <<0, 0>>,
       <<0, max_board_size[1] - orig_board_dims[1]>>,
       <<0, max_board_size[2] - orig_board_dims[2]>> >>

_pad_ok(arr, orig_board_dims) == np_pad_ok(arr, pad_width(orig_board_dims))

_pad(arr, orig_board_dims) == np_pad(arr, pad_width(orig_board_dims))

\* the input mask has shape (1,) + max_board_size
MaskRank == 3

\* mask[:, :rows, :cols] = 1 on a zero mask
ValidRegionMask(rows, cols) ==
    Arr(MaskRank, max_board_size,
        [p \in Cells(max_board_size) |-> IF p[1] < rows /\ p[2] < cols THEN 1 ELSE 0])

\* __init__: np.zeros(...), then input_mask[:, :rows, :cols] = 1
InitMask(orig_board_dims) == ValidRegionMask(orig_board_dims[1], orig_board_dims[2])

\* reset: input_mask[:] = 0 ...
ZeroMask == Full(MaskRank, max_board_size, 0)

\* ... then input_mask[:, rows, :cols] = 1, an integer index on the row axis
ResetMaskOk(orig_board_dims) == orig_board_dims[1] < max_board_size[1]

ResetMask(orig_board_dims) ==
    Arr(MaskRank, max_board_size,
        [p \in Cells(max_board_size) |->
            IF p[1] = orig_board_dims[1] /\ p[2] < orig_board_dims[2] THEN 1 ELSE 0])

\* observation(): every value padded
observation_ok(obs, orig_board_dims) ==
    \A key \in DOMAIN obs : _pad_ok(obs[key], orig_board_dims)

observation(obs, orig_board_dims) ==
    [key \in DOMAIN obs |-> _pad(obs[key], orig_board_dims)]

\* info(): which entries are padded
info_pads(val, orig_board_dims) == val.shape = orig_board_dims

PadInfoOutcome(info, orig_board_dims) ==
    IF \E key \in DOMAIN info :
          info_pads(info[key], orig_board_dims) /\ ~_pad_ok(info[key], orig_board_dims)
    THEN "ValueError"
    ELSE IF "input_mask" \in DOMAIN info THEN "AssertionError" ELSE "ok"

PadInfo(info, orig_board_dims, mask) ==
    [key \in (DOMAIN info) \cup {"input_mask"} |->
        IF key = "input_mask" THEN mask
        ELSE IF info_pads(info[key], orig_board_dims)
             THEN _pad(info[key], orig_board_dims)
             ELSE info[key]]

\* what the inner environment hands to PadEnv
\* content that is nowhere zero and differs between neighbouring cells
Pattern(rank, shape) == Arr(rank, shape, [p \in Cells(shape) |-> 1 + ((p[1] + p[2]) % 2)])

InnerObs(rank, dims) == [o |-> Pattern(rank, dims)]

\* info entries: of the board's shape, of the padded shape, or not spatial
InfoShapes(dims) == {dims, max_board_size, <<1, 1>>}

InfoArrays(dims) == {Pattern(k, d) : k \in Ranks, d \in InfoShapes(dims)}

StrayMask == Full(MaskRank, <<1, 1>>, 1)

InnerInfoPad(dims) ==
    {[e |-> v] : v \in InfoArrays(dims)}
        \cup {[e |-> v, input_mask |-> StrayMask] : v \in InfoArrays(dims)}

\* the caller's action has the padded size and as many axes as the observation
PadAction(rank) == [a |-> Pattern(rank, max_board_size)]

PadCall(op, outcome, inner_info, info, inner_obs, obs, action, inner_action) ==
    [env |-> "PadEnv", op |-> op, outcome |-> outcome,
     inner_info |-> inner_info, info |-> info,
     inner_obs |-> inner_obs, obs |-> obs,
     action |-> action, inner_action |-> inner_action]

\* what observation() and info() give after the inner call returned
PadReturn(op, inner_obs, inner_info, action, inner_action, dims, mask) ==
    IF ~observation_ok(inner_obs, dims)
    THEN PadCall(op, "ValueError", inner_info, EmptyDict, inner_obs, EmptyDict,
                 action, inner_action)
    ELSE IF PadInfoOutcome(inner_info, dims) # "ok"
    THEN PadCall(op, PadInfoOutcome(inner_info, dims), inner_info, EmptyDict,
                 inner_obs, EmptyDict, action, inner_action)
    ELSE PadCall(op, "ok", inner_info, PadInfo(inner_info, dims, mask),
                 inner_obs, observation(inner_obs, dims), action, inner_action)

PadEnv_reset ==
    /\ wrapper = "PadEnv"
    /\ \E dims \in BoardDims :
       \E rank \in Ranks, inner_info \in InnerInfoPad(dims) :
         LET inner_obs == InnerObs(rank, dims) IN
          /\ board_dims' = dims
          /\ IF ResetMaskOk(dims)
             THEN /\ input_mask' = ResetMask(dims)
                  /\ last' = PadReturn("reset", inner_obs, inner_info, EmptyDict,
                                       EmptyDict, dims, ResetMask(dims))
             ELSE /\ input_mask' = ZeroMask
                  /\ last' = PadCall("reset", "IndexError", inner_info, EmptyDict,
                                     inner_obs, EmptyDict, EmptyDict, EmptyDict)
    /\ UNCHANGED <<wrapper, peak_city_tile_count, episode_peak, last_outs, x0, ops>>

CropAction(action, orig_board_dims) ==
    [key \in DOMAIN action |->
        Slice(action[key], orig_board_dims[1], orig_board_dims[2])]

PadEnv_step ==
    /\ wrapper = "PadEnv"
    /\ \E rank \in Ranks, inner_info \in InnerInfoPad(board_dims) :
         LET action == PadAction(rank)
             inner_obs == InnerObs(rank, board_dims)
         IN  last' = PadReturn("step", inner_obs, inner_info, action,
                               CropAction(action, board_dims), board_dims, input_mask)
    /\ UNCHANGED <<wrapper, board_dims, input_mask, peak_city_tile_count,
                   episode_peak, last_outs, x0, ops>>

(* ------------------------ pad / crop round trips ---------------------- *)

\* _pad and the crop of step applied in turn to one array
RoundTrips == {<<>>, <<"pad">>, <<"pad", "crop">>, <<"crop">>, <<"crop", "pad">>}

ArrCall(outcome, arr) == [env |-> "pad_crop", op |-> "apply", outcome |-> outcome, arr |-> arr]

ApplyPad ==
    /\ wrapper = "pad_crop"
    /\ last.outcome = "ok"
    /\ Append(ops, "pad") \in RoundTrips
    /\ ops' = Append(ops, "pad")
    /\ last' = IF _pad_ok(last.arr, board_dims)
               THEN ArrCall("ok", _pad(last.arr, board_dims))
               ELSE ArrCall("ValueError", last.arr)
    /\ UNCHANGED <<wrapper, board_dims, input_mask, peak_city_tile_count,
                   episode_peak, last_outs, x0>>

ApplyCrop ==
    /\ wrapper = "pad_crop"
    /\ last.outcome = "ok"
    /\ Append(ops, "crop") \in RoundTrips
    /\ ops' = Append(ops, "crop")
    /\ last' = ArrCall("ok", CropAction([a |-> last.arr], board_dims).a)
    /\ UNCHANGED <<wrapper, board_dims, input_mask, peak_city_tile_count,
                   episode_peak, last_outs, x0>>

(* ----------------------------- LoggingEnv ----------------------------- *)

MaxTiles == 2

InitPeak == <<1, 1>>

\* a player of the game state with n city tiles
Player(n) ==
    [city_tile_count |-> n,
     cities |-> 1..Min(n, 1),
     units |-> [k \in 1..n |-> IF k % 2 = 1 THEN "worker" ELSE "cart"],
     research_points |-> n]

GameStates ==
    {[turn |-> t, players |-> <<Player(n1), Player(n2)>>] :
        t \in {0, 1}, n1 \in 0..MaxTiles, n2 \in 0..MaxTiles}

CountUnits(units, type) == Cardinality({k \in DOMAIN units : units[k] = type})

city_tiles(game_state) ==
    [k \in DOMAIN game_state.players |-> game_state.players[k].city_tile_count]

logs(game_state) ==
    [step |-> <<game_state.turn>>,
     city_tiles |-> city_tiles(game_state),
     separate_cities |->
        [k \in DOMAIN game_state.players |-> Cardinality(game_state.players[k].cities)],
     workers |->
        [k \in DOMAIN game_state.players |-> CountUnits(game_state.players[k].units, "worker")],
     carts |->
        [k \in DOMAIN game_state.players |-> CountUnits(game_state.players[k].units, "cart")],
     research_points |->
        [k \in DOMAIN game_state.players |-> game_state.players[k].research_points]]

\* the key info() reads the counts for the running maximum from
PeakSourceKey == "n_city_tiles"

np_maximum(a, b) == [k \in DOMAIN a |-> Max(a[k], b[k])]

LoggingKey(key) ==
    CASE key = "step" -> "logging_step"
      [] key = "city_tiles" -> "logging_city_tiles"
      [] key = "separate_cities" -> "logging_separate_cities"
      [] key = "workers" -> "logging_workers"
      [] key = "carts" -> "logging_carts"
      [] key = "research_points" -> "logging_research_points"
      [] key = "peak_city_tiles" -> "logging_peak_city_tiles"

LogKeys == {"step", "city_tiles", "separate_cities", "workers", "carts",
            "research_points", "peak_city_tiles"}

LoggingInfoOk(game_state) == PeakSourceKey \in DOMAIN logs(game_state)

LoggingPeak(game_state, peak) == np_maximum(peak, logs(game_state)[PeakSourceKey])

\* info.update({f"logging_{key}": ...}) on the copy of the inner info
LoggingInfo(info, game_state, peak) ==
    LET lg == logs(game_state)
        new_peak == LoggingPeak(game_state, peak)
        added == {LoggingKey(key) : key \in LogKeys}
    IN  [name \in (DOMAIN info) \cup added |->
            IF name \in added
            THEN LET key == CHOOSE k \in LogKeys : LoggingKey(k) = name
                 IN  IF key = "peak_city_tiles" THEN new_peak ELSE lg[key]
            ELSE info[name]]

InnerInfoLog == {EmptyDict, [x |-> <<7>>], [logging_step |-> <<7>>]}

LogCall(op, outcome, inner_info, info, counts) ==
    [env |-> "LoggingEnv", op |-> op, outcome |-> outcome,
     inner_info |-> inner_info, info |-> info, counts |-> counts]

\* info() from the peak it starts with: the new peak and the call's record
LoggingReturn(op, inner_info, game_state, peak) ==
    IF LoggingInfoOk(game_state)
    THEN LogCall(op, "ok", inner_info, LoggingInfo(inner_info, game_state, peak),
                 city_tiles(game_state))
    ELSE LogCall(op, "KeyError", inner_info, EmptyDict, city_tiles(game_state))

LoggingEnv_reset ==
    /\ wrapper = "LoggingEnv"
    /\ \E game_state \in GameStates, inner_info \in InnerInfoLog :
          /\ peak_city_tile_count' =
                IF LoggingInfoOk(game_state)
                THEN LoggingPeak(game_state, InitPeak)
                ELSE InitPeak
          /\ episode_peak' = np_maximum(InitPeak, city_tiles(game_state))
          /\ last' = LoggingReturn("reset", inner_info, game_state, InitPeak)
    /\ UNCHANGED <<wrapper, board_dims, input_mask, last_outs, x0, ops>>

LoggingEnv_step ==
    /\ wrapper = "LoggingEnv"
    /\ \E game_state \in GameStates, inner_info \in InnerInfoLog :
          /\ peak_city_tile_count' =
                IF LoggingInfoOk(game_state)
                THEN LoggingPeak(game_state, peak_city_tile_count)
                ELSE peak_city_tile_count
          /\ episode_peak' = np_maximum(episode_peak, city_tiles(game_state))
          /\ last' = LoggingReturn("step", inner_info, game_state, peak_city_tile_count)
    /\ UNCHANGED <<wrapper, board_dims, input_mask, last_outs, x0, ops>>

(* ------------------------------ DictEnv ------------------------------- *)

\* values are opaque tokens: the inner observation, reward and done flag, and
\* one token per info key
DictInfoKeys == {"obs", "reward", "done", "x"}

DictInfoValue(key) ==
    CASE key = "obs" -> 11 [] key = "reward" -> 12 [] key = "done" -> 13 [] key = "x" -> 14

DictEnvOuts ==
    {<<obs, reward, done, [key \in keys |-> DictInfoValue(key)]>> :
        obs \in {1, 2}, reward \in {3, 4}, done \in {5, 6}, keys \in SUBSET DictInfoKeys}

ReservedKeys == {"obs", "reward", "done"}

_dict_env_out_unchecked(env_out) == TRUE

_dict_env_out_ok(env_out) == ReservedKeys \cap DOMAIN env_out[4] = {}

_dict_env_out(env_out) ==
    LET obs == env_out[1]
        reward == env_out[2]
        done == env_out[3]
        info == env_out[4]
    IN  [key \in ReservedKeys \cup DOMAIN info |->
            CASE key = "obs" -> obs
              [] key = "reward" -> reward
              [] key = "done" -> done
              [] OTHER -> info[key]]

DictCall(op, outcome, env_out, out) ==
    [env |-> "DictEnv", op |-> op, outcome |-> outcome, env_out |-> env_out, out |-> out]

DictReturn(op, env_out) ==
    IF _dict_env_out_ok(env_out)
    THEN DictCall(op, "ok", env_out, _dict_env_out(env_out))
    ELSE DictCall(op, "AssertionError", env_out, EmptyDict)

DictEnv_reset ==
    /\ wrapper = "DictEnv"
    /\ \E env_out \in DictEnvOuts : last' = DictReturn("reset", env_out)
    /\ UNCHANGED <<wrapper, board_dims, input_mask, peak_city_tile_count,
                   episode_peak, last_outs, x0, ops>>

DictEnv_step ==
    /\ wrapper = "DictEnv"
    /\ \E env_out \in DictEnvOuts : last' = DictReturn("step", env_out)
    /\ UNCHANGED <<wrapper, board_dims, input_mask, peak_city_tile_count,
                   episode_peak, last_outs, x0, ops>>

(* ------------------------------- VecEnv ------------------------------- *)

NumEnvs == 2

\* envs[i] of the source is instance i + 1 here
EnvIds == 1..NumEnvs

\* a result tuple (obs, reward, done, info); component [2] of the source is [3] here
EnvOut(obs, reward, done, info) == <<obs, reward, done, info>>

DoneIndex == 3

\* __init__: last_outs = [() for _ in envs]
InitLastOuts == [i \in EnvIds |-> <<>>]

ObsVals == {0, 1}
ActVals == {0, 1}

\* what an inner environment returns from reset() and from step(a): the
\* observation and the done flag are its own choice, the reward is paid on the
\* final step, and info reports the action taken
InnerReset(x, d) == EnvOut([o |-> x], 0, d, [actions_taken |-> 0])

InnerStep(x, d, a) == EnvOut([o |-> x], IF d THEN 1 ELSE 0, d, [actions_taken |-> a.a])

\* the batched action: per key, one value per instance
VecActions == {[a |-> val] : val \in [EnvIds -> ActVals]}

ActionSliceFirst(action, i) == [key \in DOMAIN action |-> action[key][1]]

\* {key: val[i] for key, val in action.items()}
ActionSlice(action, i) == [key \in DOMAIN action |-> action[key][i]]

_vectorize_env_outs(env_outs) ==
    LET n == Len(env_outs)
        obs_stacked ==
            [key \in DOMAIN env_outs[1][1] |-> [i \in 1..n |-> env_outs[i][1][key]]]
        reward_stacked == [i \in 1..n |-> env_outs[i][2]]
        done_stacked == [i \in 1..n |-> env_outs[i][3]]
        info_stacked ==
            [key \in DOMAIN env_outs[1][4] |-> [i \in 1..n |-> env_outs[i][4][key]]]
    IN  <<obs_stacked, reward_stacked, done_stacked, info_stacked>>

\* the ascending sequence of the members of a set of instance ids
RECURSIVE InOrder(_)
InOrder(S) ==
    IF S = {} THEN <<>>
    ELSE LET m == CHOOSE m \in S : \A k \in S : m <= k
         IN  <<m>> \o InOrder(S \ {m})

VecCall(op, force, action, outcome, calls, ret) ==
    [env |-> "VecEnv", op |-> op, force |-> force, action |-> action,
     outcome |-> outcome, calls |-> calls, ret |-> ret]

InnerCall(i, op, action, out) == [env |-> i, op |-> op, action |-> action, out |-> out]

\* the loop of reset(force=False) stops at the first instance whose last
\* result has no component [2]
FirstUnrecorded(outs) ==
    IF \E i \in EnvIds : Len(outs[i]) < DoneIndex
    THEN CHOOSE i \in EnvIds :
            /\ Len(outs[i]) < DoneIndex
            /\ \A k \in EnvIds : Len(outs[k]) < DoneIndex => i <= k
    ELSE NumEnvs + 1

ResetsAll(outs) == EnvIds

ResetsDoneEager(outs) ==
    {i \in EnvIds :
        /\ i <= FirstUnrecorded(outs)
        /\ (Len(outs[i]) < DoneIndex \/ outs[i][DoneIndex])}

\* the instances reset(force=False) resets
ResetsDone(outs) == {i \in EnvIds : i < FirstUnrecorded(outs) /\ outs[i][DoneIndex]}

VecEnv_reset ==
    /\ wrapper = "VecEnv"
    /\ \E force \in BOOLEAN :
       \E x \in [EnvIds -> ObsVals], d \in [EnvIds -> BOOLEAN] :
         LET fresh == [i \in EnvIds |-> InnerReset(x[i], d[i])]
             which == IF force THEN EnvIds ELSE ResetsDone(last_outs)
             outs == [i \in EnvIds |-> IF i \in which THEN fresh[i] ELSE last_outs[i]]
             order == InOrder(which)
             calls == [k \in DOMAIN order |->
                          InnerCall(order[k], "reset", EmptyDict, fresh[order[k]])]
         IN  /\ last_outs' = outs
             /\ last' = IF ~force /\ FirstUnrecorded(last_outs) \in EnvIds
                        THEN VecCall("reset", force, EmptyDict, "IndexError", calls, <<>>)
                        ELSE VecCall("reset", force, EmptyDict, "ok", calls,
                                     _vectorize_env_outs(outs))
    /\ UNCHANGED <<wrapper, board_dims, input_mask, peak_city_tile_count,
                   episode_peak, x0, ops>>

VecEnv_step ==
    /\ wrapper = "VecEnv"
    /\ \E action \in VecActions :
       \E x \in [EnvIds -> ObsVals], d \in [EnvIds -> BOOLEAN] :
         LET actions == [i \in EnvIds |-> ActionSlice(action, i)]
             outs == [i \in EnvIds |-> InnerStep(x[i], d[i], actions[i])]
             calls == [i \in EnvIds |-> InnerCall(i, "step", actions[i], outs[i])]
         IN  /\ last_outs' = outs
             /\ last' = VecCall("step", FALSE, action, "ok", calls,
                                _vectorize_env_outs(outs))
    /\ UNCHANGED <<wrapper, board_dims, input_mask, peak_city_tile_count,
                   episode_peak, x0, ops>>

(* ------------------------------- driver ------------------------------- *)

NoCall == [env |-> "none", op |-> "init", outcome |-> "ok"]

Wrappers == {"PadEnv", "pad_crop", "LoggingEnv", "VecEnv", "DictEnv"}

RoundTripInputs(dims) ==
    UNION {AllArrays(k, dims) \cup AllArrays(k, max_board_size) : k \in Ranks}

Init ==
    /\ wrapper \in Wrappers
    /\ board_dims \in (IF wrapper \in {"PadEnv", "pad_crop"} THEN BoardDims ELSE {max_board_size})
    /\ input_mask = InitMask(board_dims)
    /\ peak_city_tile_count = InitPeak
    /\ episode_peak = InitPeak
    /\ last_outs = InitLastOuts
    /\ ops = <<>>
    /\ IF wrapper = "pad_crop"
       THEN /\ x0 \in RoundTripInputs(board_dims)
            /\ last = ArrCall("ok", x0)
       ELSE /\ x0 = ZeroMask
            /\ last = NoCall

Next ==
    \/ PadEnv_reset
    \/ PadEnv_step
    \/ ApplyPad
    \/ ApplyCrop
    \/ LoggingEnv_reset
    \/ LoggingEnv_step
    \/ VecEnv_reset
    \/ VecEnv_step
    \/ DictEnv_reset
    \/ DictEnv_step

Spec == Init /\ [][Next]_vars

(* ------------------------------- claims ------------------------------- *)

\* p is x zero-padded on its trailing two axes up to max_board_size
IsZeroPadOf(p, x) ==
    /\ p.rank = x.rank
    /\ p.shape = max_board_size
    /\ \A c \in Cells(max_board_size) :
          p.cells[c] = IF c \in Cells(x.shape) THEN x.cells[c] ELSE 0

\* p is zero outside the region of the original board
ZeroOutside(p, dims) ==
    \A c \in Cells(p.shape) : c \notin Cells(dims) => p.cells[c] = 0

\* C1: after a PadEnv.reset, and at every step until the next one, the mask
\* the wrapper holds and the one it returns under "input_mask" are true exactly
\* on [0, orig_rows) x [0, orig_cols), for every board size up to the maximum.
C1_MaskCoversValidRegion ==
    (last.env = "PadEnv" /\ last.outcome # "ValueError" /\ last.outcome # "AssertionError") =>
        /\ last.outcome = "ok"
        /\ input_mask = ValidRegionMask(board_dims[1], board_dims[2])
        /\ last.info.input_mask = ValidRegionMask(board_dims[1], board_dims[2])

\* C2: VecEnv.reset(force=False) resets exactly the instances whose last
\* recorded done flag is true and replaces last_outs only for those; the other
\* instances are not called and keep their last_outs entry, which is also
\* their entry of the stacked result.  reset(force=True) resets every instance.
C2_SelectiveReset ==
    [][(last'.env = "VecEnv" /\ last'.op = "reset" /\ last'.outcome = "ok") =>
          LET called == {last'.calls[k].env : k \in DOMAIN last'.calls}
          IN  /\ called = IF last'.force
                          THEN EnvIds
                          ELSE {i \in EnvIds : last_outs[i][DoneIndex]}
              /\ \A k \in DOMAIN last'.calls :
                    /\ last'.calls[k].op = "reset"
                    /\ last_outs'[last'.calls[k].env] = last'.calls[k].out
                    /\ \A j \in DOMAIN last'.calls :
                          last'.calls[j].env = last'.calls[k].env => j = k
              /\ \A i \in EnvIds \ called :
                    /\ last_outs'[i] = last_outs[i]
                    /\ last'.ret[1].o[i] = last_outs[i][1].o
                    /\ last'.ret[2][i] = last_outs[i][2]
                    /\ last'.ret[3][i] = last_outs[i][3]
                    /\ last'.ret[4].actions_taken[i] = last_outs[i][4].actions_taken]_vars

C2_Witness ==
    /\ last.env = "VecEnv"
    /\ last.op = "reset"
    /\ ~last.force
    /\ last.outcome = "ok"
    /\ Len(last.calls) > 0
    /\ Len(last.calls) < NumEnvs

\* C3: VecEnv.step steps each instance exactly once, in increasing index order,
\* with the mapping {key: action[key][i]}; the four stacked components have
\* leading dimension N and entry i of each is what instance i's step returned.
C3_StepStacks ==
    (last.env = "VecEnv" /\ last.op = "step") =>
        /\ last.outcome = "ok"
        /\ Len(last.calls) = NumEnvs
        /\ \A i \in EnvIds :
              /\ last.calls[i].env = i
              /\ last.calls[i].op = "step"
              /\ DOMAIN last.calls[i].action = DOMAIN last.action
              /\ \A key \in DOMAIN last.action :
                    last.calls[i].action[key] = last.action[key][i]
              /\ last_outs[i] = last.calls[i].out
        /\ DOMAIN last.ret[1] = {"o"}
        /\ DOMAIN last.ret[4] = {"actions_taken"}
        /\ Len(last.ret[1].o) = NumEnvs
        /\ Len(last.ret[2]) = NumEnvs
        /\ Len(last.ret[3]) = NumEnvs
        /\ Len(last.ret[4].actions_taken) = NumEnvs
        /\ \A i \in EnvIds :
              /\ last.ret[1].o[i] = last.calls[i].out[1].o
              /\ last.ret[2][i] = last.calls[i].out[2]
              /\ last.ret[3][i] = last.calls[i].out[3]
              /\ last.ret[4].actions_taken[i] = last.calls[i].out[4].actions_taken

C3_Witness ==
    /\ last.env = "VecEnv"
    /\ last.op = "step"
    /\ last.outcome = "ok"
    /\ \E i, j \in EnvIds :
          /\ last.action.a[i] # last.action.a[j]
          /\ last.ret[1].o[i] # last.ret[1].o[j]
          /\ last.ret[3][i] # last.ret[3][j]

\* C4: DictEnv.reset and DictEnv.step fail with an assertion whenever the inner
\* info has one of the keys "obs", "reward", "done", returning nothing; otherwise
\* the result has exactly the keys obs, reward, done and those of info, each
\* bound to the inner result's value.
C4_DictContract ==
    last.env = "DictEnv" =>
        LET info == last.env_out[4]
        IN  IF {"obs", "reward", "done"} \cap DOMAIN info # {}
            THEN /\ last.outcome = "AssertionError"
                 /\ last.out = EmptyDict
            ELSE /\ last.outcome = "ok"
                 /\ DOMAIN last.out = {"obs", "reward", "done"} \cup DOMAIN info
                 /\ last.out.obs = last.env_out[1]
                 /\ last.out.reward = last.env_out[2]
                 /\ last.out.done = last.env_out[3]
                 /\ \A key \in DOMAIN info : last.out[key] = info[key]

C4_Witness ==
    /\ last.env = "DictEnv"
    /\ "reward" \in DOMAIN last.env_out[4]
    /\ "x" \in DOMAIN last.env_out[4]
    /\ last.outcome = "AssertionError"

\* C5: every LoggingEnv.reset and step returns "logging_peak_city_tiles" equal,
\* per player, to the largest of 1 and the city-tile counts read at the most
\* recent reset and at every step since.
C5_PeakIsEpisodeMax ==
    last.env = "LoggingEnv" =>
        /\ last.outcome = "ok"
        /\ last.info.logging_peak_city_tiles = episode_peak

\* the keys a wrapper adds to the info mapping
AddedKeys(env) ==
    CASE env = "PadEnv" -> {"input_mask"}
      [] env = "LoggingEnv" -> {LoggingKey(key) : key \in LogKeys}
      [] env = "DictEnv" -> ReservedKeys
      [] OTHER -> {}

InnerInfoOf(call) == IF call.env = "DictEnv" THEN call.env_out[4] ELSE call.inner_info

ResultOf(call) == IF call.env = "DictEnv" THEN call.out ELSE call.info

Collides(call) == AddedKeys(call.env) \cap DOMAIN InnerInfoOf(call) # {}

\* the call got as far as the wrapper's own check of the keys it adds
ReachedKeyCheck(call) ==
    call.env = "PadEnv" => call.outcome \notin {"IndexError", "ValueError"}

\* every key of the inner info is still bound to the inner entry (PadEnv: to
\* the entry, zero-padded if it has the board's shape)
Preserved(call) ==
    \A key \in DOMAIN InnerInfoOf(call) :
        /\ key \in DOMAIN ResultOf(call)
        /\ \/ ResultOf(call)[key] = InnerInfoOf(call)[key]
           \/ /\ call.env = "PadEnv"
              /\ IsZeroPadOf(ResultOf(call)[key], InnerInfoOf(call)[key])

InfoWrappers == {"PadEnv", "LoggingEnv", "DictEnv"}

\* C6 as stated: for PadEnv, LoggingEnv and DictEnv alike, a call that returns
\* keeps every pre-existing key, and a call whose inner info already has a key
\* the wrapper adds fails with a contract violation (an assertion).
C6_NoWrapperOverwrites ==
    last.env \in InfoWrappers =>
        /\ last.outcome = "ok" => ~Collides(last) /\ Preserved(last)
        /\ (Collides(last) /\ ReachedKeyCheck(last)) => last.outcome = "AssertionError"

\* What the code does guarantee (C6 restricted to the wrappers that assert):
\* PadEnv and DictEnv never overwrite a key of the inner info: a call of theirs
\* that returns keeps every pre-existing key, and a collision makes the call
\* fail, with an assertion once the key check is reached.
PadAndDictGuardKeys ==
    last.env \in {"PadEnv", "DictEnv"} =>
        /\ last.outcome = "ok" => ~Collides(last) /\ Preserved(last)
        /\ Collides(last) => last.outcome # "ok"
        /\ (Collides(last) /\ ReachedKeyCheck(last)) => last.outcome = "AssertionError"

\* the three parts of the round trip, for the arrays x0 they are stated for
RoundTripHolds ==
    /\ (ops = <<"pad">> /\ x0.shape = board_dims) =>
          /\ last.outcome = "ok"
          /\ IsZeroPadOf(last.arr, x0)
    /\ (ops = <<"pad", "crop">> /\ x0.shape = board_dims) =>
          /\ last.outcome = "ok"
          /\ last.arr = x0
    /\ (ops = <<"crop", "pad">> /\ x0.shape = max_board_size /\ ZeroOutside(x0, board_dims)) =>
          /\ last.outcome = "ok"
          /\ last.arr = x0

\* C7 as stated: for every array x with trailing dimensions (orig_rows,
\* orig_cols), _pad(x) has trailing dimensions max_board_size, equals x on the
\* original region and is zero elsewhere, so step's crop returns x from it; and
\* every padded array that is zero outside the region survives crop, then pad.
C7_PadCropInverse ==
    wrapper = "pad_crop" => RoundTripHolds

\* C7 amended: the same for every array x (and padded array p) with exactly
\* four axes, one per pair of pad_width; _pad of an array with another number
\* of axes fails.
C7_PadCropInverseRank4 ==
    wrapper = "pad_crop" =>
        /\ x0.rank = Len(pad_width(board_dims)) => RoundTripHolds
        /\ (x0.rank # Len(pad_width(board_dims)) /\ ops # <<>> /\ ops[Len(ops)] = "pad") =>
              last.outcome = "ValueError"

C7_Witness ==
    /\ wrapper = "pad_crop"
    /\ ops = <<"pad", "crop">>
    /\ x0.shape = board_dims
    /\ board_dims[1] < max_board_size[1]
    /\ board_dims[2] < max_board_size[2]
    /\ \E c \in Cells(x0.shape) : x0.cells[c] # 0
    /\ last.outcome = "ok"
    /\ last.arr = x0

\* info() was reached and its key check passes: what the call returns is
\* decided by the padding of the entries alone
InfoPadded(call) ==
    /\ call.env = "PadEnv"
    /\ call.outcome # "IndexError"
    /\ observation_ok(call.inner_obs, board_dims)
    /\ "input_mask" \notin DOMAIN call.inner_info

EntriesAsClaimed(call) ==
    /\ call.outcome = "ok"
    /\ \A key \in DOMAIN call.inner_info :
          IF call.inner_info[key].shape = board_dims
          THEN IsZeroPadOf(call.info[key], call.inner_info[key])
          ELSE call.info[key] = call.inner_info[key]

\* C8 as stated: PadEnv.info returns an entry of any rank zero-padded to
\* max_board_size if its trailing two dimensions are the board's, unchanged
\* otherwise, and never fails because of an entry's rank.
C8_InfoPaddedAnyRank ==
    InfoPadded(last) => EntriesAsClaimed(last)

\* C8 amended: so it is when every entry with the board's trailing dimensions
\* has exactly four axes (entries of another shape may have any rank); an entry
\* with the board's trailing dimensions and another number of axes makes the
\* call fail with np.pad's ValueError.
C8_InfoPaddedRank4 ==
    InfoPadded(last) =>
        IF \E key \in DOMAIN last.inner_info :
              /\ last.inner_info[key].shape = board_dims
              /\ last.inner_info[key].rank # Len(pad_width(board_dims))
        THEN last.outcome = "ValueError"
        ELSE EntriesAsClaimed(last)

C8_Witness ==
    /\ InfoPadded(last)
    /\ last.outcome = "ok"
    /\ last.inner_info.e.shape = board_dims
    /\ board_dims[1] < max_board_size[1]
    /\ board_dims[2] < max_board_size[2]
    /\ last.info.e # last.inner_info.e

\* C10: on a VecEnv with an instance that has no recorded result,
\* reset(force=False) fails before resetting any instance and leaves every
\* last_outs entry the empty tuple; otherwise it succeeds.
C10_UnrecordedResetFails ==
    [][(last'.env = "VecEnv" /\ last'.op = "reset" /\ ~last'.force) =>
          IF \E i \in EnvIds : last_outs[i] = <<>>
          THEN /\ last'.outcome = "IndexError"
               /\ last'.calls = <<>>
               /\ last_outs' = last_outs
               /\ \A i \in EnvIds : last_outs'[i] = <<>>
          ELSE last'.outcome = "ok"]_vars

C10_Witness ==
    /\ last.env = "VecEnv"
    /\ last.op = "reset"
    /\ ~last.force
    /\ last.outcome = "IndexError"
    /\ last.calls = <<>>
    /\ \A i \in EnvIds : last_outs[i] = <<>>

====
